---- MODULE Spec2Model ----
(***************************************************************************)
(* Request pipeline of vaillant-netatmo-api: the ThermostatAuth auth flow  *)
(* (attach token, refresh on 401/403, re-send once), the error taxonomy of *)
(* client_error_handler and the tenacity retry policy that wraps one       *)
(* logical API call.                                                       *)
(***************************************************************************)
EXTENDS Integers, Sequences, FiniteSets, TLC

VARIABLES
    pc,             \* position of the logical call: idle, send1, refresh, send2, sleep, done
    attempt,        \* tenacity's retry_state.attempt_number (0 before the call)
    elapsed,        \* seconds since the first attempt started (MaxDelay + 1: more)
    delay,          \* the backoff delay of the sleep in progress
    token,          \* TokenStore._token
    hasObserver,    \* TokenStore._on_token_update is not None
    jitter,         \* where this run's random draws fall in their interval: low, high
    resourceSends,  \* requests sent to the resource endpoint during the call
    tokenSends,     \* requests sent to the token endpoint during the call
    replacements,   \* executions of the TokenStore.token setter during the call
    observerCalls,  \* invocations of on_token_update during the call
    sleeps,         \* backoff sleeps started during the call
    first,          \* status of the first resource response of this attempt (0: none)
    refresh,        \* refresh of this attempt: none, replaced, error, failed
    attemptResourceSends, \* resource-endpoint requests of this attempt
    attemptTokenSends,   \* token-endpoint requests of this attempt
    attemptReplacements, \* setter executions of this attempt
    refreshFailed,  \* some refresh of this call got an error response or failed to send
    lastRaw,        \* the raw outcome that ended the latest attempt
    lastTag,        \* its classification ("none" while an attempt runs)
    result,         \* what the caller gets: none, success or the exception raised
    flows,          \* concurrent calls on one store: position and refresh response of each
    observerLog,    \* invocations of on_token_update: argument, and the store's token then
    exchanges,      \* successful token exchanges the token endpoint has answered
    processed,      \* the exchanges whose response was processed, in processing order
    input,          \* argument of the function under study
    wire,           \* its serialized or encoded form
    output,         \* the result of the function
    body,           \* status field of the body of the 2xx response that ended the call
    attached,       \* access token attached to the resource request sent last
    grant,          \* parameters of the refresh request sent last
    later           \* access token attached to the first request of the next call

vars == <<pc, attempt, elapsed, delay, token, hasObserver, jitter, resourceSends,
          tokenSends,
          replacements, observerCalls, sleeps, first, refresh, attemptResourceSends,
          attemptTokenSends, attemptReplacements, refreshFailed, lastRaw, lastTag,
          result, flows, observerLog, exchanges, processed, input, wire, output,
          body, attached, grant, later>>

\* ------------------------------------------------------------------ bounds

\* Seconds a slow network exchange takes (a fast one takes 0).
SlowSend == 100

\* Calls running concurrently on one client (one auth flow each, one store for all).
NumCalls == 2

\* Key/value pairs in a form-encoded request body.
MaxPairs == 3

\* Largest expiry time of a token.
MaxExpiry == 3

\* ------------------------------------------------------- program constants

UNAUTHORIZED == 401
FORBIDDEN == 403
TOO_MANY_REQUESTS == 429
MaxDelay == 300
MaxAttemptNumber == 10
WaitMultiplier == 1
WaitMax == 30

Min(a, b) == IF a < b THEN a ELSE b

\* ------------------------------------------------------------ raw outcomes

\* A send either raises a transport exception or yields a response.
NoRaw == [exc |-> "none", status |-> 0]
Raised(e) == [exc |-> e, status |-> 0]
Response(s) == [exc |-> "none", status |-> s]
HTTPStatusError(s) == [exc |-> "HTTPStatusError", status |-> s]

TransportFailures == {Raised("TimeoutException"), Raised("NetworkError")}
ResourceStatuses == {200, 400, UNAUTHORIZED, FORBIDDEN, TOO_MANY_REQUESTS, 500, 600}
TokenStatuses == {200, 400, 500}
ResourceOutcomes == TransportFailures \cup {Response(s) : s \in ResourceStatuses}
TokenOutcomes == TransportFailures \cup {Response(s) : s \in TokenStatuses}
SendDurations == {0, SlowSend}

\* ---------------------------------------------------------- error taxonomy

is_client_error(s) == 400 <= s /\ s <= 499
is_server_error(s) == 500 <= s /\ s <= 599
is_error(s) == 400 <= s /\ s <= 599
is_success(s) == 200 <= s /\ s <= 299

\* Variant: RequestException derived from NonRetryableException.
RetryableException_narrow ==
    {"NetworkTimeoutException", "NetworkException", "RequestServerException"}
RetryableException ==
    {"NetworkTimeoutException", "NetworkException", "RequestServerException",
     "RequestException"}
NonRetryableException ==
    {"RequestUnauthorizedException", "RequestBackoffException", "RequestClientException"}

\* Variant: the is_client_error branch left out.
client_error_handler_without_4xx(e) ==
    IF e.exc = "TimeoutException" THEN "NetworkTimeoutException"
    ELSE IF e.exc = "NetworkError" THEN "NetworkException"
    ELSE IF e.exc = "HTTPStatusError" THEN
        IF e.status = UNAUTHORIZED \/ e.status = FORBIDDEN
            THEN "RequestUnauthorizedException"
        ELSE IF e.status = TOO_MANY_REQUESTS THEN "RequestBackoffException"
        ELSE IF is_server_error(e.status) THEN "RequestServerException"
        ELSE "RequestException"
    ELSE e.exc

\* Variant: the is_client_error test placed before the 429 test.
client_error_handler_4xx_first(e) ==
    IF e.exc = "TimeoutException" THEN "NetworkTimeoutException"
    ELSE IF e.exc = "NetworkError" THEN "NetworkException"
    ELSE IF e.exc = "HTTPStatusError" THEN
        IF e.status = UNAUTHORIZED \/ e.status = FORBIDDEN
            THEN "RequestUnauthorizedException"
        ELSE IF is_client_error(e.status) THEN "RequestClientException"
        ELSE IF e.status = TOO_MANY_REQUESTS THEN "RequestBackoffException"
        ELSE IF is_server_error(e.status) THEN "RequestServerException"
        ELSE "RequestException"
    ELSE e.exc

\* The except clauses in order; e is what the guarded block raised.
client_error_handler(e) ==
    IF e.exc = "TimeoutException" THEN "NetworkTimeoutException"
    ELSE IF e.exc = "NetworkError" THEN "NetworkException"
    ELSE IF e.exc = "HTTPStatusError" THEN
        IF e.status = UNAUTHORIZED \/ e.status = FORBIDDEN
            THEN "RequestUnauthorizedException"
        ELSE IF e.status = TOO_MANY_REQUESTS THEN "RequestBackoffException"
        ELSE IF is_client_error(e.status) THEN "RequestClientException"
        ELSE IF is_server_error(e.status) THEN "RequestServerException"
        ELSE "RequestException"
    ELSE e.exc

\* One unit of work under the handler: a transport exception of the send, or the
\* HTTPStatusError of raise_for_status on a non-2xx response, is classified;
\* "ok" when the response body is returned.
post(raw) ==
    IF raw.exc # "none" THEN client_error_handler(raw)
    ELSE IF ~is_success(raw.status) THEN client_error_handler(HTTPStatusError(raw.status))
    ELSE "ok"

\* ------------------------------------------------------------ retry policy

\* Variant: retry_if_exception_type(ApiException).
retry_if_exception_type_any(tag) ==
    tag \in RetryableException \cup NonRetryableException
retry_if_exception_type(tag) == tag \in RetryableException
stop_after_delay(seconds_since_start) == seconds_since_start >= MaxDelay
\* Variant: the attempt bound compared with > instead of >=.
stop_after_attempt_late(attempt_number) == attempt_number > MaxAttemptNumber
stop_after_attempt(attempt_number) == attempt_number >= MaxAttemptNumber
\* Variant: the two stop conditions joined with & instead of |.
stop_both(attempt_number, seconds_since_start) ==
    stop_after_delay(seconds_since_start) /\ stop_after_attempt(attempt_number)
stop(attempt_number, seconds_since_start) ==
    stop_after_delay(seconds_since_start) \/ stop_after_attempt(attempt_number)
\* Variant: reraise left at its default.
reraise_off == FALSE
reraise == TRUE
\* Variant: the exponent is the attempt number itself.
wait_exponential_from_two(attempt_number) ==
    Min(WaitMultiplier * 2 ^ attempt_number, WaitMax)
wait_exponential(attempt_number) ==
    Min(WaitMultiplier * 2 ^ (attempt_number - 1), WaitMax)
\* random.uniform(a, b): a run draws either the low or the high end of the interval
uniform(a, b) == IF jitter = "low" THEN a ELSE b
wait_random_exponential(attempt_number) == uniform(0, wait_exponential(attempt_number))

\* ------------------------------------------------------------- token store

None == [none |-> TRUE]
JNull == <<"null", 0>>
JStr == <<"str", 0>>
JInt(n) == <<"int", n>>
isinstance_int(x) == x[1] = "int"

\* params.get(key): None when the key is absent.
get(params, key) == IF key \in DOMAIN params THEN params[key] ELSE JNull

\* Variant: expires_in is looked at before expires_at.
Token_expires_in_first(params, now) ==
    [access_token |-> get(params, "access_token"),
     refresh_token |-> get(params, "refresh_token"),
     expires_at |-> IF isinstance_int(get(params, "expires_in"))
                    THEN JInt(now + get(params, "expires_in")[2])
                    ELSE IF isinstance_int(get(params, "expires_at"))
                         THEN get(params, "expires_at")
                         ELSE JNull]
Token(params, now) ==
    [access_token |-> get(params, "access_token"),
     refresh_token |-> get(params, "refresh_token"),
     expires_at |-> IF isinstance_int(get(params, "expires_at"))
                    THEN get(params, "expires_at")
                    ELSE IF isinstance_int(get(params, "expires_in"))
                         THEN JInt(now + get(params, "expires_in")[2])
                         ELSE JNull]

\* The credential the caller bootstraps the store with, and the body of the k-th
\* successful token exchange.
InitialToken == Token([access_token |-> 0, refresh_token |-> 0,
                       expires_at |-> JStr, expires_in |-> JNull], 0)
RefreshBody(k) == [access_token |-> k, refresh_token |-> k,
                   expires_at |-> JStr, expires_in |-> JNull]

\* What _content_with_access_token appends for the stored token t: its access
\* token, or nothing when the store is empty.
NoAccessToken == -1
\* No request of a later call has been built.
NotCalled == -2
attached_access_token(t) == IF t = None THEN NoAccessToken ELSE t.access_token

\* TokenStore.refresh_token_request for the stored token t.
NoGrant == [grant_type |-> "none", client_id |-> "none", client_secret |-> "none",
            refresh_token |-> NoAccessToken]
refresh_token_request_of(t) ==
    [grant_type |-> "refresh_token", client_id |-> "ID", client_secret |-> "SECRET",
     refresh_token |-> t.refresh_token]

\* The status check on the body that _post returned.
RESPONSE_STATUS_OK == "ok"
BodyStatuses == {"ok", "failed"}
\* Variant: the status field is not looked at.
check_status_lenient(body_status) == "success"
check_status(body_status) ==
    IF body_status # RESPONSE_STATUS_OK THEN "NonOkResponseException" ELSE "success"

\* ------------------------------------------------------ argument checking

SetpointModes == {"manual", "away", "hwb"}

\* Variant: an end time equal to the current time is let through.
get_setpoint_endtime_raises_at_now_ok(setpoint_mode, activate, setpoint_endtime, now) ==
    IF ~activate THEN setpoint_endtime # JNull
    ELSE IF setpoint_endtime = JNull
         THEN setpoint_mode = "manual" \/ setpoint_mode = "hwb"
         ELSE setpoint_endtime[2] < now

\* TRUE when _get_setpoint_endtime raises UnsuportedArgumentsException.
get_setpoint_endtime_raises(setpoint_mode, activate, setpoint_endtime, now) ==
    IF ~activate THEN setpoint_endtime # JNull
    ELSE IF setpoint_endtime = JNull
         THEN setpoint_mode = "manual" \/ setpoint_mode = "hwb"
         ELSE setpoint_endtime[2] <= now

\* TRUE when _get_setpoint_temp raises UnsuportedArgumentsException.
get_setpoint_temp_raises(setpoint_mode, activate, setpoint_temp) ==
    IF ~activate THEN setpoint_temp # JNull
    ELSE IF setpoint_temp = JNull
         THEN setpoint_mode = "manual"
         ELSE setpoint_mode # "manual"

\* ----------------------------------------------------------------- actions

\* The clock after d more seconds; every reading above MaxDelay is kept as MaxDelay + 1.
Advance(d) == Min(elapsed + d, MaxDelay + 1)

\* What the auth flow, the store and the retry engine leave alone in a step.
Bystanders == <<hasObserver, jitter, flows, observerLog, exchanges, processed,
                input, wire, output, later>>

\* Variant: the setter stores the token and calls nobody.
token_setter_silent(calls) == calls

\* TokenStore.token setter: the observer, when there is one, is called once.
token_setter(calls) == IF hasObserver THEN calls + 1 ELSE calls

\* Variant: every 4xx status of the first response starts a refresh.
is_auth_failure_any_4xx(status) == is_client_error(status)

\* auth_flow refreshes on these statuses of the first response.
is_auth_failure(status) == status = UNAUTHORIZED \/ status = FORBIDDEN

\* Attempt 1 runs at once: the auth flow yields the request with the current
\* access token attached.
FirstAttempt ==
    /\ pc' = "send1"
    /\ attempt' = 1
    /\ resourceSends' = 1
    /\ attemptResourceSends' = 1
    /\ attached' = attached_access_token(token)
    /\ UNCHANGED <<elapsed, delay, token, tokenSends, replacements, observerCalls,
                   sleeps, first, refresh, attemptTokenSends, attemptReplacements,
                   refreshFailed, lastRaw, lastTag, result, body, grant, Bystanders>>

\* async_get_thermostats_data, async_set_system_mode, ...: no argument is checked.
Call ==
    /\ pc = "idle"
    /\ FirstAttempt

\* Variant: the arguments are checked after the request was sent.
SetMinorMode_checking_late ==
    /\ pc = "idle"
    /\ \E setpoint_mode \in SetpointModes, activate \in BOOLEAN,
          setpoint_endtime \in {JNull, JInt(elapsed - 1), JInt(elapsed), JInt(elapsed + 1)},
          setpoint_temp \in {JNull, JInt(20)} :
        IF \/ get_setpoint_endtime_raises(setpoint_mode, activate, setpoint_endtime, elapsed)
           \/ get_setpoint_temp_raises(setpoint_mode, activate, setpoint_temp)
        THEN /\ pc' = "done"
             /\ result' = "UnsuportedArgumentsException"
             /\ attempt' = 1
             /\ resourceSends' = 1
             /\ attemptResourceSends' = 1
             /\ UNCHANGED <<elapsed, delay, token, tokenSends,
                            replacements, observerCalls, sleeps, first, refresh,
                            attemptTokenSends,
                            attemptReplacements, refreshFailed, lastRaw, lastTag,
                            body, attached, grant, Bystanders>>
        ELSE FirstAttempt

\* async_set_minor_mode: the arguments are checked before anything is sent.
SetMinorMode ==
    /\ pc = "idle"
    /\ \E setpoint_mode \in SetpointModes, activate \in BOOLEAN,
          setpoint_endtime \in {JNull, JInt(elapsed - 1), JInt(elapsed), JInt(elapsed + 1)},
          setpoint_temp \in {JNull, JInt(20)} :
        IF \/ get_setpoint_endtime_raises(setpoint_mode, activate, setpoint_endtime, elapsed)
           \/ get_setpoint_temp_raises(setpoint_mode, activate, setpoint_temp)
        THEN /\ pc' = "done"
             /\ result' = "UnsuportedArgumentsException"
             /\ UNCHANGED <<attempt, elapsed, delay, token, resourceSends, tokenSends,
                            replacements, observerCalls, sleeps, first, refresh,
                            attemptResourceSends, attemptTokenSends,
                            attemptReplacements, refreshFailed, lastRaw, lastTag,
                            body, attached, grant, Bystanders>>
        ELSE FirstAttempt

\* Variant: the stop condition is not consulted; every retryable failure sleeps.
Raise_without_stop(tag, raw, now) ==
    /\ lastRaw' = raw
    /\ lastTag' = tag
    /\ elapsed' = now
    /\ UNCHANGED body
    /\ IF ~retry_if_exception_type(tag)
       THEN /\ pc' = "done"
            /\ result' = tag
            /\ UNCHANGED <<delay, sleeps>>
       ELSE /\ pc' = "sleep"
            /\ delay' = wait_random_exponential(attempt)
            /\ sleeps' = sleeps + 1
            /\ UNCHANGED result

\* The retry engine after an attempt raised: an exception that is not a
\* RetryableException, or a retryable one with the budget used up, is raised to the
\* caller; otherwise the engine sleeps.
Raise(tag, raw, now) ==
    /\ lastRaw' = raw
    /\ lastTag' = tag
    /\ elapsed' = now
    /\ UNCHANGED body
    /\ IF ~retry_if_exception_type(tag)
       THEN /\ pc' = "done"
            /\ result' = tag
            /\ UNCHANGED <<delay, sleeps>>
       ELSE IF stop(attempt, now)
       THEN /\ pc' = "done"
            /\ result' = IF reraise THEN tag ELSE "RetryError"
            /\ UNCHANGED <<delay, sleeps>>
       ELSE /\ pc' = "sleep"
            /\ delay' = wait_random_exponential(attempt)
            /\ sleeps' = sleeps + 1
            /\ UNCHANGED result

\* The response the auth flow lets through is validated and classified; the body
\* of a 2xx response is returned and its status field checked by the caller of _post.
Conclude(raw, now) ==
    IF post(raw) = "ok"
    THEN /\ lastRaw' = raw
         /\ lastTag' = "none"
         /\ elapsed' = now
         /\ pc' = "done"
         /\ \E body_status \in BodyStatuses :
                /\ body' = body_status
                /\ result' = check_status(body_status)
         /\ UNCHANGED <<delay, sleeps>>
    ELSE Raise(post(raw), raw, now)

\* Variant: the request is sent again together with the refresh request.
FirstResponse_resending_early ==
    /\ pc = "send1"
    /\ \E raw \in ResourceOutcomes, d \in SendDurations :
        /\ first' = raw.status
        /\ IF raw.exc = "none" /\ is_auth_failure(raw.status)
           THEN IF token = None
                THEN /\ Raise("AttributeError", Raised("AttributeError"), Advance(d))
                     /\ UNCHANGED <<tokenSends, attemptTokenSends, grant,
                                    resourceSends, attemptResourceSends>>
                ELSE /\ pc' = "refresh"
                     /\ grant' = refresh_token_request_of(token)
                     /\ tokenSends' = tokenSends + 1
                     /\ attemptTokenSends' = attemptTokenSends + 1
                     /\ resourceSends' = resourceSends + 1
                     /\ attemptResourceSends' = attemptResourceSends + 1
                     /\ elapsed' = Advance(d)
                     /\ UNCHANGED <<delay, sleeps, lastRaw, lastTag, result, body>>
           ELSE /\ Conclude(raw, Advance(d))
                /\ UNCHANGED <<tokenSends, attemptTokenSends, grant,
                               resourceSends, attemptResourceSends>>
        /\ UNCHANGED <<attempt, token, replacements, observerCalls,
                       refresh, attemptReplacements,
                       refreshFailed, attached, Bystanders>>

\* The first response of the attempt reaches the auth flow.
FirstResponse ==
    /\ pc = "send1"
    /\ \E raw \in ResourceOutcomes, d \in SendDurations :
        /\ first' = raw.status
        /\ IF raw.exc = "none" /\ is_auth_failure(raw.status)
           THEN IF token = None
                THEN \* _get_refresh_token_request reads self._token.refresh_token
                     /\ Raise("AttributeError", Raised("AttributeError"), Advance(d))
                     /\ UNCHANGED <<tokenSends, attemptTokenSends, grant>>
                ELSE /\ pc' = "refresh"
                     /\ grant' = refresh_token_request_of(token)
                     /\ tokenSends' = tokenSends + 1
                     /\ attemptTokenSends' = attemptTokenSends + 1
                     /\ elapsed' = Advance(d)
                     /\ UNCHANGED <<delay, sleeps, lastRaw, lastTag, result, body>>
           ELSE /\ Conclude(raw, Advance(d))
                /\ UNCHANGED <<tokenSends, attemptTokenSends, grant>>
        /\ UNCHANGED <<attempt, token, resourceSends, replacements, observerCalls,
                       refresh, attemptResourceSends, attemptReplacements,
                       refreshFailed, attached, Bystanders>>

\* Variant: the token is assigned twice, before and after decoding.
process_refresh_response_twice(raw, now) ==
    IF ~is_error(raw.status)
    THEN /\ token' = Token(RefreshBody(replacements + 2), now)
         /\ replacements' = replacements + 2
         /\ attemptReplacements' = attemptReplacements + 2
         /\ observerCalls' = token_setter(token_setter(observerCalls))
         /\ refresh' = "replaced"
         /\ UNCHANGED refreshFailed
    ELSE /\ refresh' = "error"
         /\ refreshFailed' = TRUE
         /\ UNCHANGED <<token, replacements, attemptReplacements, observerCalls>>

\* Variant: an error response of the token endpoint empties the store.
process_refresh_response_clearing(raw, now) ==
    IF ~is_error(raw.status)
    THEN /\ token' = Token(RefreshBody(replacements + 1), now)
         /\ replacements' = replacements + 1
         /\ attemptReplacements' = attemptReplacements + 1
         /\ observerCalls' = token_setter(observerCalls)
         /\ refresh' = "replaced"
         /\ UNCHANGED refreshFailed
    ELSE /\ refresh' = "error"
         /\ refreshFailed' = TRUE
         /\ token' = None
         /\ UNCHANGED <<replacements, attemptReplacements, observerCalls>>

\* _process_refresh_response: a response that is not an error replaces the token.
process_refresh_response(raw, now) ==
    IF ~is_error(raw.status)
    THEN /\ token' = Token(RefreshBody(replacements + 1), now)
         /\ replacements' = replacements + 1
         /\ attemptReplacements' = attemptReplacements + 1
         /\ observerCalls' = token_setter(observerCalls)
         /\ refresh' = "replaced"
         /\ UNCHANGED refreshFailed
    ELSE /\ refresh' = "error"
         /\ refreshFailed' = TRUE
         /\ UNCHANGED <<token, replacements, attemptReplacements, observerCalls>>

\* Variant: an error response of the token endpoint is raised, not followed by
\* the second send.
RefreshResponse_raising ==
    /\ pc = "refresh"
    /\ \E raw \in TokenOutcomes, d \in SendDurations :
        IF raw.exc # "none" \/ is_error(raw.status)
        THEN /\ refresh' = IF raw.exc # "none" THEN "failed" ELSE "error"
             /\ refreshFailed' = TRUE
             /\ Raise(post(raw), raw, Advance(d))
             /\ UNCHANGED <<attempt, token, resourceSends, tokenSends, replacements,
                            observerCalls, first, attemptResourceSends,
                            attemptTokenSends, attemptReplacements, attached, grant,
                            Bystanders>>
        ELSE /\ process_refresh_response(raw, Advance(d))
             /\ pc' = "send2"
             /\ attached' = attached_access_token(token')
             /\ resourceSends' = resourceSends + 1
             /\ attemptResourceSends' = attemptResourceSends + 1
             /\ elapsed' = Advance(d)
             /\ UNCHANGED <<attempt, delay, tokenSends, sleeps, first,
                            attemptTokenSends, lastRaw, lastTag, result, body, grant,
                            Bystanders>>

\* Variant: the request is sent again as it was first sent, with the old access token.
RefreshResponse_stale_resend ==
    /\ pc = "refresh"
    /\ \E raw \in TokenOutcomes, d \in SendDurations :
        IF raw.exc # "none"
        THEN /\ refresh' = "failed"
             /\ refreshFailed' = TRUE
             /\ Raise(client_error_handler(raw), raw, Advance(d))
             /\ UNCHANGED <<attempt, token, resourceSends, tokenSends, replacements,
                            observerCalls, first, attemptResourceSends,
                            attemptTokenSends, attemptReplacements, attached, grant,
                            Bystanders>>
        ELSE /\ process_refresh_response(raw, Advance(d))
             /\ pc' = "send2"
             /\ attached' = attached
             /\ resourceSends' = resourceSends + 1
             /\ attemptResourceSends' = attemptResourceSends + 1
             /\ elapsed' = Advance(d)
             /\ UNCHANGED <<attempt, delay, tokenSends, sleeps, first,
                            attemptTokenSends, lastRaw, lastTag, result, body, grant,
                            Bystanders>>

\* The token endpoint answers the refresh request, or the send fails; after the
\* response is processed the request is sent again.
RefreshResponse ==
    /\ pc = "refresh"
    /\ \E raw \in TokenOutcomes, d \in SendDurations :
        IF raw.exc # "none"
        THEN /\ refresh' = "failed"
             /\ refreshFailed' = TRUE
             /\ Raise(client_error_handler(raw), raw, Advance(d))
             /\ UNCHANGED <<attempt, token, resourceSends, tokenSends, replacements,
                            observerCalls, first, attemptResourceSends,
                            attemptTokenSends, attemptReplacements, attached, grant,
                            Bystanders>>
        ELSE /\ process_refresh_response(raw, Advance(d))
             /\ pc' = "send2"
             /\ attached' = attached_access_token(token')
             /\ resourceSends' = resourceSends + 1
             /\ attemptResourceSends' = attemptResourceSends + 1
             /\ elapsed' = Advance(d)
             /\ UNCHANGED <<attempt, delay, tokenSends, sleeps, first,
                            attemptTokenSends, lastRaw, lastTag, result, body, grant,
                            Bystanders>>

\* Variant: the auth flow loops, refreshing again when the second response is
\* 401 or 403 as well.
ResendResponse_refreshing_again ==
    /\ pc = "send2"
    /\ \E raw \in ResourceOutcomes, d \in SendDurations :
        /\ IF raw.exc = "none" /\ is_auth_failure(raw.status) /\ attemptTokenSends < 3
           THEN /\ pc' = "refresh"
                /\ tokenSends' = tokenSends + 1
                /\ attemptTokenSends' = attemptTokenSends + 1
                /\ elapsed' = Advance(d)
                /\ UNCHANGED <<delay, sleeps, lastRaw, lastTag, result, body>>
           ELSE /\ Conclude(raw, Advance(d))
                /\ UNCHANGED <<tokenSends, attemptTokenSends>>
        /\ UNCHANGED <<attempt, token, resourceSends, replacements, observerCalls,
                       first, refresh, attemptResourceSends, attemptReplacements,
                       refreshFailed, attached, grant, Bystanders>>

\* Variant: a 401/403 answer to the re-sent request makes the flow send it once more.
ResendResponse_sending_third ==
    /\ pc = "send2"
    /\ \E raw \in ResourceOutcomes, d \in SendDurations :
        /\ IF raw.exc = "none" /\ is_auth_failure(raw.status)
           THEN /\ pc' = "send2"
                /\ lastRaw' = raw
                /\ resourceSends' = resourceSends + 1
                /\ attemptResourceSends' = attemptResourceSends + 1
                /\ elapsed' = Advance(d)
                /\ UNCHANGED <<delay, sleeps, lastTag, result, body>>
           ELSE /\ Conclude(raw, Advance(d))
                /\ UNCHANGED <<resourceSends, attemptResourceSends>>
        /\ UNCHANGED <<attempt, token, tokenSends, replacements,
                       observerCalls, first, refresh,
                       attemptTokenSends, attemptReplacements, refreshFailed,
                       attached, grant, Bystanders>>

\* The response to the re-sent request ends the auth flow, whatever it is.
ResendResponse ==
    /\ pc = "send2"
    /\ \E raw \in ResourceOutcomes, d \in SendDurations :
        /\ Conclude(raw, Advance(d))
        /\ UNCHANGED <<attempt, token, resourceSends, tokenSends, replacements,
                       observerCalls, first, refresh, attemptResourceSends,
                       attemptTokenSends, attemptReplacements, refreshFailed,
                       attached, grant, Bystanders>>

\* Variant: every attempt sends the request built for the first attempt.
Wake_reusing_first_request ==
    /\ pc = "sleep"
    /\ pc' = "send1"
    /\ attempt' = attempt + 1
    /\ elapsed' = Advance(delay)
    /\ delay' = 0
    /\ resourceSends' = resourceSends + 1
    /\ first' = 0
    /\ refresh' = "none"
    /\ attemptResourceSends' = 1
    /\ attemptTokenSends' = 0
    /\ attemptReplacements' = 0
    /\ lastRaw' = NoRaw
    /\ lastTag' = "none"
    /\ attached' = attached_access_token(IF token = None THEN None ELSE InitialToken)
    /\ UNCHANGED <<token, tokenSends, replacements, observerCalls, sleeps,
                   refreshFailed, result, body, grant, Bystanders>>

\* Variant: the engine does not count the attempts it starts.
Wake_not_counting ==
    /\ pc = "sleep"
    /\ pc' = "send1"
    /\ attempt' = attempt
    /\ elapsed' = Advance(delay)
    /\ delay' = 0
    /\ resourceSends' = resourceSends + 1
    /\ first' = 0
    /\ refresh' = "none"
    /\ attemptResourceSends' = 1
    /\ attemptTokenSends' = 0
    /\ attemptReplacements' = 0
    /\ lastRaw' = NoRaw
    /\ lastTag' = "none"
    /\ attached' = attached_access_token(token)
    /\ UNCHANGED <<token, tokenSends, replacements, observerCalls, sleeps,
                   refreshFailed, result, body, grant, Bystanders>>

\* The backoff sleep ends and the next attempt sends its first request.
Wake ==
    /\ pc = "sleep"
    /\ pc' = "send1"
    /\ attempt' = attempt + 1
    /\ elapsed' = Advance(delay)
    /\ delay' = 0
    /\ resourceSends' = resourceSends + 1
    /\ first' = 0
    /\ refresh' = "none"
    /\ attemptResourceSends' = 1
    /\ attemptTokenSends' = 0
    /\ attemptReplacements' = 0
    /\ lastRaw' = NoRaw
    /\ lastTag' = "none"
    /\ attached' = attached_access_token(token)
    /\ UNCHANGED <<token, tokenSends, replacements, observerCalls, sleeps,
                   refreshFailed, result, body, grant, Bystanders>>

\* The client is called again after the logical call has ended: the auth flow of
\* the later call builds its first request from the store as it was left.
LaterCall ==
    /\ pc = "done"
    /\ later = NotCalled
    /\ later' = attached_access_token(token)
    /\ UNCHANGED <<pc, attempt, elapsed, delay, token, hasObserver, jitter,
                   resourceSends, tokenSends, replacements, observerCalls, sleeps,
                   first, refresh, attemptResourceSends, attemptTokenSends,
                   attemptReplacements, refreshFailed, lastRaw, lastTag, result,
                   flows, observerLog, exchanges, processed, input, wire, output,
                   body, attached, grant>>

Init ==
    /\ pc = "idle"
    /\ attempt = 0
    /\ elapsed = 0
    /\ delay = 0
    /\ token \in {None, InitialToken}
    /\ hasObserver \in BOOLEAN
    /\ jitter \in {"low", "high"}
    /\ resourceSends = 0
    /\ tokenSends = 0
    /\ replacements = 0
    /\ observerCalls = 0
    /\ sleeps = 0
    /\ first = 0
    /\ refresh = "none"
    /\ attemptResourceSends = 0
    /\ attemptTokenSends = 0
    /\ attemptReplacements = 0
    /\ refreshFailed = FALSE
    /\ lastRaw = NoRaw
    /\ lastTag = "none"
    /\ result = "none"
    /\ flows = <<>> /\ observerLog = <<>> /\ exchanges = 0 /\ processed = <<>>
    /\ input = <<>> /\ wire = <<>> /\ output = <<>>
    /\ body = "none" /\ attached = NoAccessToken /\ grant = NoGrant
    /\ later = NotCalled

\* The steps of the logical call itself.
CallStep ==
    \/ Call
    \/ SetMinorMode
    \/ FirstResponse
    \/ RefreshResponse
    \/ ResendResponse
    \/ Wake

Next == CallStep \/ LaterCall

Spec == Init /\ [][Next]_vars

\* The same call when every request sent is answered or fails (the client's
\* timeouts end every send) and every sleep ends: a step of the call that can be
\* taken is taken.
SpecLive == Init /\ [][Next]_vars /\ WF_vars(CallStep)

\* ------------------------------------------------- the handler on its own

\* What the block guarded by client_error_handler can raise: the transport
\* exceptions it names and the HTTPStatusError of any non-2xx status.
RaisedInHandler ==
    TransportFailures \cup {HTTPStatusError(s) : s \in (100 .. 199) \cup (300 .. 699)}

InitClassify ==
    /\ pc = "raised"
    /\ lastRaw \in RaisedInHandler
    /\ lastTag = "none"
    /\ result = "none"
    /\ attempt = 0 /\ elapsed = 0 /\ delay = 0
    /\ token = None /\ hasObserver = FALSE /\ jitter = "low"
    /\ resourceSends = 0 /\ tokenSends = 0 /\ replacements = 0
    /\ observerCalls = 0 /\ sleeps = 0 /\ first = 0 /\ refresh = "none"
    /\ attemptResourceSends = 0 /\ attemptTokenSends = 0
    /\ attemptReplacements = 0 /\ refreshFailed = FALSE
    /\ flows = <<>> /\ observerLog = <<>> /\ exchanges = 0 /\ processed = <<>>
    /\ input = <<>> /\ wire = <<>> /\ output = <<>>
    /\ body = "none" /\ attached = NoAccessToken /\ grant = NoGrant
    /\ later = NotCalled

\* The handler replaces the exception by its classification.
Classify ==
    /\ pc = "raised"
    /\ pc' = "classified"
    /\ lastTag' = client_error_handler(lastRaw)
    /\ result' = client_error_handler(lastRaw)
    /\ UNCHANGED <<attempt, elapsed, delay, token, resourceSends, tokenSends,
                   replacements, observerCalls, sleeps, first, refresh,
                   attemptResourceSends, attemptTokenSends, attemptReplacements,
                   refreshFailed, lastRaw, body, attached, grant, Bystanders>>

SpecClassify == InitClassify /\ [][Classify]_vars

\* ------------------------------------------------------- request snapshots

\* A body is a sequence of symbols: the words access_token and password, the
\* separators = and &, the marker, and other characters of keys and values.
FILTERED == "<FILTERED>"

\* Form encoding of a sequence of <<key, value>> pairs (key, value: symbol sequences).
RECURSIVE urlencode(_)
urlencode(pairs) ==
    IF pairs = <<>> THEN <<>>
    ELSE Head(pairs)[1] \o <<"=">> \o Head(pairs)[2]
         \o (IF Tail(pairs) = <<>> THEN <<>> ELSE <<"&">> \o urlencode(Tail(pairs)))

\* Where a match of  key=.+?(&|$)  that starts at position i of s ends; 0 when
\* there is none. The lazy .+? takes s[i+2 .. j] for the least j that is the end
\* of s or is followed by &, and that & belongs to the match.
match_end(key, s, i) ==
    IF i + 2 <= Len(s) /\ s[i] = key /\ s[i + 1] = "="
    THEN LET js == {j \in (i + 2) .. Len(s) : j = Len(s) \/ s[j + 1] = "&"}
             j == CHOOSE j \in js : \A k \in js : j <= k
         IN IF j = Len(s) THEN j ELSE j + 1
    ELSE 0

\* sub(rb"key=.+?(&|$)", rb"key=<FILTERED>&", s), scanning s from position i.
RECURSIVE sub(_, _, _)
sub(key, s, i) ==
    IF i > Len(s) THEN <<>>
    ELSE IF match_end(key, s, i) = 0 THEN <<s[i]>> \o sub(key, s, i + 1)
    ELSE <<key, "=", FILTERED, "&">> \o sub(key, s, match_end(key, s, i) + 1)

\* The body of _sanitize_request(request) for request.content = content.
sanitize_request(content) == sub("access_token", sub("password", content, 1), 1)

\* The body of a resource request before the auth flow, the refresh-grant
\* parameters of the store, and the body the auth flow yields.
ResourceContent == urlencode(<< << <<"device_type">>, <<"NAVaillant">> >> >>)
refresh_token_request ==
    << << <<"grant_type">>, <<"refresh_token">> >>,
       << <<"client_id">>, <<"ID">> >>,
       << <<"client_secret">>, <<"SECRET">> >>,
       << <<"refresh_token">>, <<"REFRESH">> >> >>
content_with_access_token(content) ==
    IF token = None THEN content \o <<"&">>
    ELSE content \o <<"&">> \o urlencode(<< << <<"access_token">>, <<"ACCESS">> >> >>)

\* The request snapshot of the ApiException that ends an attempt: the request
\* whose send or response raised, sanitized. It is the refresh request when the
\* refresh could not be sent, else the resource request as the auth flow yielded it.
ApiException_request ==
    sanitize_request(IF refresh = "failed" THEN urlencode(refresh_token_request)
                     ELSE content_with_access_token(ResourceContent))

\* ------------------------------------------------- the sanitizer on its own

FormKeys == {<<"access_token">>, <<"password">>, <<"a">>, <<"c">>, <<"a", "password">>}
FormValues == {<<>>, <<"s">>, <<"t">>}
FormBodies == UNION {[1 .. n -> FormKeys \X FormValues] : n \in 1 .. MaxPairs}

\* The single call before it starts: what the function studies leave alone.
Idle ==
    /\ attempt = 0 /\ elapsed = 0 /\ delay = 0
    /\ token = None /\ hasObserver = FALSE /\ jitter = "low"
    /\ resourceSends = 0 /\ tokenSends = 0 /\ replacements = 0
    /\ observerCalls = 0 /\ sleeps = 0 /\ first = 0 /\ refresh = "none"
    /\ attemptResourceSends = 0 /\ attemptTokenSends = 0
    /\ attemptReplacements = 0 /\ refreshFailed = FALSE
    /\ lastRaw = NoRaw /\ lastTag = "none" /\ result = "none"
    /\ flows = <<>> /\ observerLog = <<>> /\ exchanges = 0 /\ processed = <<>>
    /\ body = "none" /\ attached = NoAccessToken /\ grant = NoGrant
    /\ later = NotCalled

IdleVars == <<attempt, elapsed, delay, token, hasObserver, jitter, resourceSends,
              tokenSends, replacements, observerCalls, sleeps, first, refresh,
              attemptResourceSends, attemptTokenSends, attemptReplacements,
              refreshFailed, lastRaw, lastTag, result, flows, observerLog,
              exchanges, processed, body, attached, grant, later>>

InitSanitize ==
    /\ pc = "pairs"
    /\ input \in FormBodies
    /\ wire = <<>>
    /\ output = <<>>
    /\ Idle

\* The request is built: its content is the form encoding of the pairs.
EncodeRequest ==
    /\ pc = "pairs"
    /\ pc' = "request"
    /\ wire' = urlencode(input)
    /\ UNCHANGED <<input, output, IdleVars>>

\* ApiException.__init__ takes the snapshot of the request.
SanitizeRequest ==
    /\ pc = "request"
    /\ pc' = "sanitized"
    /\ output' = sanitize_request(wire)
    /\ UNCHANGED <<input, wire, IdleVars>>

NextSanitize == EncodeRequest \/ SanitizeRequest

SpecSanitize == InitSanitize /\ [][NextSanitize]_vars

\* ------------------------------------------------ the token's persisted form

\* A JSON text is the sequence of the members of its object, each a name and
\* a JSON value: null, a number or a string.
json_null == <<"json", "null", 0>>
json_number(n) == <<"json", "number", n>>
json_string(x) == <<"json", "string", x>>
PyStr(x) == <<"str", x>>

\* json.dumps and json.loads on one value (None, an int or a str).
dumps_value(v) ==
    IF v = JNull THEN json_null
    ELSE IF isinstance_int(v) THEN json_number(v[2])
    ELSE json_string(v[2])
loads_value(j) ==
    IF j[2] = "null" THEN JNull
    ELSE IF j[2] = "number" THEN JInt(j[3])
    ELSE PyStr(j[3])

\* json.loads of an object: the dict of its members.
json_loads(text) ==
    [name \in {text[i][1] : i \in DOMAIN text} |->
        loads_value((CHOOSE m \in {text[i] : i \in DOMAIN text} : m[1] = name)[2])]

\* Variant: the expiry written under the name the token endpoint uses.
serialize_expires_in(t) ==
    << <<"access_token", dumps_value(t.access_token)>>,
       <<"refresh_token", dumps_value(t.refresh_token)>>,
       <<"expires_in", dumps_value(t.expires_at)>> >>

\* Token.serialize and Token.deserialize.
serialize(t) ==
    << <<"access_token", dumps_value(t.access_token)>>,
       <<"refresh_token", dumps_value(t.refresh_token)>>,
       <<"expires_at", dumps_value(t.expires_at)>> >>
deserialize(text, now) == Token(json_loads(text), now)

\* The tokens Token.__init__ builds: any access and refresh token, an integer
\* expiry or none.
TokenStrings == {JNull, PyStr(1), PyStr(2)}
Tokens ==
    {Token([access_token |-> a, refresh_token |-> r, expires_at |-> e], 0) :
        a \in TokenStrings, r \in TokenStrings,
        e \in {JNull} \cup {JInt(n) : n \in 0 .. MaxExpiry}}

InitRoundTrip ==
    /\ pc = "token"
    /\ input \in Tokens
    /\ wire = <<>>
    /\ output = <<>>
    /\ Idle

SerializeToken ==
    /\ pc = "token"
    /\ pc' = "serialized"
    /\ wire' = serialize(input)
    /\ UNCHANGED <<input, output, IdleVars>>

\* Deserialized at some later time.
DeserializeToken ==
    /\ pc = "serialized"
    /\ pc' = "deserialized"
    /\ \E now \in {0, MaxExpiry} : output' = deserialize(wire, now)
    /\ UNCHANGED <<input, wire, IdleVars>>

NextRoundTrip == SerializeToken \/ DeserializeToken

SpecRoundTrip == InitRoundTrip /\ [][NextRoundTrip]_vars

\* ------------------------------------- concurrent calls sharing one store

Calls == 1 .. NumCalls

\* What the single call, its retry engine and the functions under study hold.
SingleCall == <<pc, attempt, elapsed, delay, jitter, resourceSends, tokenSends,
                replacements, observerCalls, sleeps, first, refresh,
                attemptResourceSends, attemptTokenSends, attemptReplacements,
                refreshFailed, lastRaw, lastTag, result, input, wire, output,
                body, attached, grant, later>>

\* The body of the k-th successful token exchange.
ExchangeBody(k) == [access_token |-> k, refresh_token |-> k,
                    expires_at |-> JInt(k), expires_in |-> JNull]

\* The observer is handed arg while the store's token getter returns seen.
on_token_update(arg, seen) == [arg |-> arg, seen |-> seen]

\* Variant: the observer is called before the new token is stored.
token_setter_observer_first(value) ==
    /\ token' = value
    /\ observerLog' = IF hasObserver
                      THEN Append(observerLog, on_token_update(value, token))
                      ELSE observerLog

\* TokenStore.token setter: store the value, then call the observer, if any, with
\* the stored token.
token_setter_shared(value) ==
    /\ token' = value
    /\ observerLog' = IF hasObserver
                      THEN Append(observerLog, on_token_update(token', token'))
                      ELSE observerLog

\* A coroutine calls the client: its auth flow yields the request.
SharedCall(c) ==
    /\ flows[c].pc = "idle"
    /\ flows' = [flows EXCEPT ![c].pc = "send1"]
    /\ UNCHANGED <<token, hasObserver, observerLog, exchanges, processed, SingleCall>>

\* The first response reaches the auth flow of call c; on 401 or 403 it yields
\* the refresh request built from the stored token.
SharedFirstResponse(c) ==
    /\ flows[c].pc = "send1"
    /\ \E raw \in ResourceOutcomes :
        flows' = [flows EXCEPT ![c].pc =
                    IF raw.exc = "none" /\ is_auth_failure(raw.status) /\ token # None
                    THEN "refresh" ELSE "done"]
    /\ UNCHANGED <<token, hasObserver, observerLog, exchanges, processed, SingleCall>>

\* The token endpoint answers the refresh request of call c (every successful
\* exchange issues a new credential), or the send fails.
SharedTokenResponse(c) ==
    /\ flows[c].pc = "refresh"
    /\ \E raw \in TokenOutcomes :
        IF raw.exc # "none"
        THEN /\ flows' = [flows EXCEPT ![c].pc = "done"]
             /\ UNCHANGED exchanges
        ELSE IF is_error(raw.status)
        THEN /\ flows' = [flows EXCEPT ![c] = [pc |-> "refreshed", status |-> raw.status,
                                                body |-> 0]]
             /\ UNCHANGED exchanges
        ELSE /\ flows' = [flows EXCEPT ![c] = [pc |-> "refreshed", status |-> raw.status,
                                                body |-> exchanges + 1]]
             /\ exchanges' = exchanges + 1
    /\ UNCHANGED <<token, hasObserver, observerLog, processed, SingleCall>>

\* Variant: the response replaces only the access token of the stored token.
SharedProcessRefreshResponse_access_only(c) ==
    /\ flows[c].pc = "refreshed"
    /\ IF ~is_error(flows[c].status)
       THEN /\ token_setter_shared(
                  [token EXCEPT !.access_token = ExchangeBody(flows[c].body).access_token])
            /\ processed' = Append(processed, flows[c].body)
       ELSE UNCHANGED <<token, observerLog, processed>>
    /\ flows' = [flows EXCEPT ![c].pc = "send2"]
    /\ UNCHANGED <<hasObserver, exchanges, SingleCall>>

\* Variant: the response is dropped when another call replaced the token since
\* the refresh request of call c was built.
SharedProcessRefreshResponse_if_unchanged(c) ==
    /\ flows[c].pc = "refreshed"
    /\ IF ~is_error(flows[c].status)
       THEN /\ IF processed = <<>>
               THEN token_setter_shared(Token(ExchangeBody(flows[c].body), 0))
               ELSE UNCHANGED <<token, observerLog>>
            /\ processed' = Append(processed, flows[c].body)
       ELSE UNCHANGED <<token, observerLog, processed>>
    /\ flows' = [flows EXCEPT ![c].pc = "send2"]
    /\ UNCHANGED <<hasObserver, exchanges, SingleCall>>

\* Variant: the body of any response, error or not, is decoded and stored (the
\* body of an error response has none of the token's fields).
SharedProcessRefreshResponse_any_status(c) ==
    /\ flows[c].pc = "refreshed"
    /\ token_setter_shared(IF is_error(flows[c].status)
                           THEN [access_token |-> NoAccessToken,
                                 refresh_token |-> NoAccessToken, expires_at |-> JNull]
                           ELSE Token(ExchangeBody(flows[c].body), 0))
    /\ processed' = Append(processed, flows[c].body)
    /\ flows' = [flows EXCEPT ![c].pc = "send2"]
    /\ UNCHANGED <<hasObserver, exchanges, SingleCall>>

\* _process_refresh_response of call c, then the request is yielded again.
SharedProcessRefreshResponse(c) ==
    /\ flows[c].pc = "refreshed"
    /\ IF ~is_error(flows[c].status)
       THEN /\ token_setter_shared(Token(ExchangeBody(flows[c].body), 0))
            /\ processed' = Append(processed, flows[c].body)
       ELSE UNCHANGED <<token, observerLog, processed>>
    /\ flows' = [flows EXCEPT ![c].pc = "send2"]
    /\ UNCHANGED <<hasObserver, exchanges, SingleCall>>

\* The response to the re-sent request ends the auth flow of call c.
SharedResendResponse(c) ==
    /\ flows[c].pc = "send2"
    /\ flows' = [flows EXCEPT ![c].pc = "done"]
    /\ UNCHANGED <<token, hasObserver, observerLog, exchanges, processed, SingleCall>>

InitShared ==
    /\ flows = [c \in Calls |-> [pc |-> "idle", status |-> 0, body |-> 0]]
    /\ token \in {None, InitialToken}
    /\ hasObserver \in BOOLEAN
    /\ observerLog = <<>> /\ exchanges = 0 /\ processed = <<>>
    /\ pc = "idle" /\ attempt = 0 /\ elapsed = 0 /\ delay = 0 /\ jitter = "low"
    /\ resourceSends = 0 /\ tokenSends = 0 /\ replacements = 0
    /\ observerCalls = 0 /\ sleeps = 0 /\ first = 0 /\ refresh = "none"
    /\ attemptResourceSends = 0 /\ attemptTokenSends = 0
    /\ attemptReplacements = 0 /\ refreshFailed = FALSE
    /\ lastRaw = NoRaw /\ lastTag = "none" /\ result = "none"
    /\ input = <<>> /\ wire = <<>> /\ output = <<>>
    /\ body = "none" /\ attached = NoAccessToken /\ grant = NoGrant
    /\ later = NotCalled

NextShared ==
    \E c \in Calls :
        \/ SharedCall(c)
        \/ SharedFirstResponse(c)
        \/ SharedTokenResponse(c)
        \/ SharedProcessRefreshResponse(c)
        \/ SharedResendResponse(c)

SpecShared == InitShared /\ [][NextShared]_vars

\* ------------------------------------------------- password-grant token fetch

\* AuthClient.async_get_token: each attempt of the retry engine calls fetch_token
\* under client_error_handler.  input holds the username and the password the
\* caller passed.
Usernames == {"", "user"}
Passwords == {"", "secret"}

InitGetToken ==
    /\ pc = "idle"
    /\ input \in [username : Usernames, password : Passwords]
    /\ jitter \in {"low", "high"}
    /\ attempt = 0 /\ elapsed = 0 /\ delay = 0
    /\ token = None /\ hasObserver = FALSE
    /\ resourceSends = 0 /\ tokenSends = 0 /\ replacements = 0
    /\ observerCalls = 0 /\ sleeps = 0 /\ first = 0 /\ refresh = "none"
    /\ attemptResourceSends = 0 /\ attemptTokenSends = 0
    /\ attemptReplacements = 0 /\ refreshFailed = FALSE
    /\ lastRaw = NoRaw /\ lastTag = "none" /\ result = "none"
    /\ flows = <<>> /\ observerLog = <<>> /\ exchanges = 0 /\ processed = <<>>
    /\ wire = <<>> /\ output = <<>>
    /\ body = "none" /\ attached = NoAccessToken /\ grant = NoGrant
    /\ later = NotCalled

\* The call starts: nothing looks at username or password before fetch_token
\* posts them to the token endpoint.
GetToken ==
    /\ pc = "idle"
    /\ pc' = "fetch"
    /\ attempt' = 1
    /\ tokenSends' = 1
    /\ attemptTokenSends' = 1
    /\ UNCHANGED <<elapsed, delay, token, resourceSends, replacements, observerCalls,
                   sleeps, first, refresh, attemptResourceSends, attemptReplacements,
                   refreshFailed, lastRaw, lastTag, result, body, attached, grant,
                   Bystanders>>

\* The token endpoint's answer: the handler classifies a transport exception and
\* the HTTPStatusError of a 5xx answer, the OAuth client's own error for a 4xx
\* answer passes through it unclassified, a 2xx answer is the token returned.
FetchResponse ==
    /\ pc = "fetch"
    /\ \E raw \in TokenOutcomes, d \in SendDurations :
        IF raw.exc # "none"
        THEN Raise(client_error_handler(raw), raw, Advance(d))
        ELSE IF raw.status >= 500
        THEN Raise(client_error_handler(HTTPStatusError(raw.status)), raw, Advance(d))
        ELSE IF is_error(raw.status)
        THEN Raise("OAuthError", raw, Advance(d))
        ELSE /\ pc' = "done"
             /\ result' = "success"
             /\ lastRaw' = raw
             /\ lastTag' = "none"
             /\ elapsed' = Advance(d)
             /\ UNCHANGED <<delay, sleeps, body>>
    /\ UNCHANGED <<attempt, token, resourceSends, tokenSends, replacements,
                   observerCalls, first, refresh, attemptResourceSends,
                   attemptTokenSends, attemptReplacements, refreshFailed, attached,
                   grant, Bystanders>>

\* The backoff sleep ends and fetch_token is called again.
WakeGetToken ==
    /\ pc = "sleep"
    /\ pc' = "fetch"
    /\ attempt' = attempt + 1
    /\ elapsed' = Advance(delay)
    /\ delay' = 0
    /\ tokenSends' = tokenSends + 1
    /\ attemptTokenSends' = 1
    /\ lastRaw' = NoRaw
    /\ lastTag' = "none"
    /\ UNCHANGED <<token, resourceSends, replacements, observerCalls, sleeps, first,
                   refresh, attemptResourceSends, attemptReplacements, refreshFailed,
                   result, body, attached, grant, Bystanders>>

NextGetToken == GetToken \/ FetchResponse \/ WakeGetToken
SpecGetToken == InitGetToken /\ [][NextGetToken]_vars

\* ------------------------------------------- arguments of async_set_minor_mode

\* What _get_setpoint_endtime and _get_setpoint_temp return when they do not
\* raise: the value supplied, or None.
get_setpoint_endtime(setpoint_mode, activate, setpoint_endtime) ==
    IF ~activate THEN JNull ELSE setpoint_endtime
get_setpoint_temp(setpoint_mode, activate, setpoint_temp) ==
    IF ~activate THEN JNull ELSE setpoint_temp

\* The optional keys async_set_minor_mode puts into the request's data.
minor_mode_data(endtime, temp) ==
    [keys |-> (IF endtime # JNull THEN {"setpoint_endtime"} ELSE {})
              \cup (IF temp # JNull THEN {"setpoint_temp"} ELSE {}),
     setpoint_endtime |-> endtime,
     setpoint_temp |-> temp]

MaxClock == 2
Clocks == 1 .. MaxClock
EndTimes == {JNull} \cup {JInt(t) : t \in 0 .. MaxClock + 1}
Temps == {JNull, JInt(0), JInt(20)}

InitMinorMode ==
    /\ pc = "args"
    /\ input \in [setpoint_mode : SetpointModes, activate : BOOLEAN,
                  setpoint_endtime : EndTimes, setpoint_temp : Temps, now : Clocks]
    /\ wire = <<>>
    /\ output = <<>>
    /\ Idle

\* async_set_minor_mode up to the call of _post: the two checks, then the data.
CheckMinorMode ==
    /\ pc = "args"
    /\ pc' = "checked"
    /\ output' =
        IF \/ get_setpoint_endtime_raises(input.setpoint_mode, input.activate,
                                          input.setpoint_endtime, input.now)
           \/ get_setpoint_temp_raises(input.setpoint_mode, input.activate,
                                       input.setpoint_temp)
        THEN [raised |-> TRUE, data |-> minor_mode_data(JNull, JNull)]
        ELSE [raised |-> FALSE,
              data |-> minor_mode_data(
                  get_setpoint_endtime(input.setpoint_mode, input.activate,
                                       input.setpoint_endtime),
                  get_setpoint_temp(input.setpoint_mode, input.activate,
                                    input.setpoint_temp))]
    /\ UNCHANGED <<input, wire, IdleVars>>

SpecMinorMode == InitMinorMode /\ [][CheckMinorMode]_vars

\* ------------------------------------------------ building a Token, expiry

\* Variant: a token whose expiry is the current time counts as expired.
is_expired_at_deadline(t, now) ==
    IF t.expires_at = JNull \/ t.expires_at[2] = 0 THEN TRUE
    ELSE t.expires_at[2] <= now

\* Token.is_expired: no expiry (None, or the falsy 0) is expired; otherwise the
\* expiry is compared with time().
is_expired(t, now) ==
    IF t.expires_at = JNull \/ t.expires_at[2] = 0 THEN TRUE
    ELSE t.expires_at[2] < now

\* The values a token-endpoint response can hold for expires_at and expires_in,
\* and the responses: each of the two keys is present or not.
ExpiryValues == {JNull, JStr} \cup {JInt(n) : n \in 0 .. MaxExpiry}
TokenParams ==
    LET Names == {JNull, PyStr(1)}
    IN  {[access_token |-> a, refresh_token |-> r, expires_at |-> x, expires_in |-> y] :
            a \in Names, r \in Names, x \in ExpiryValues, y \in ExpiryValues}
        \cup {[access_token |-> a, refresh_token |-> r, expires_at |-> x] :
            a \in Names, r \in Names, x \in ExpiryValues}
        \cup {[access_token |-> a, refresh_token |-> r, expires_in |-> y] :
            a \in Names, r \in Names, y \in ExpiryValues}
        \cup {[access_token |-> a, refresh_token |-> r] : a \in Names, r \in Names}
\* The times at which is_expired is read.
ReadClocks == 1 .. (MaxExpiry + MaxClock + 1)

InitToken ==
    /\ pc = "params"
    /\ input \in [params : TokenParams, built_at : Clocks, read_at : ReadClocks]
    /\ wire = <<>>
    /\ output = <<>>
    /\ Idle

\* Token(params) at time built_at.
BuildToken ==
    /\ pc = "params"
    /\ pc' = "built"
    /\ wire' = Token(input.params, input.built_at)
    /\ UNCHANGED <<input, output, IdleVars>>

\* token.is_expired at time read_at.
ReadIsExpired ==
    /\ pc = "built"
    /\ pc' = "read"
    /\ output' = is_expired(wire, input.read_at)
    /\ UNCHANGED <<input, wire, IdleVars>>

NextToken == BuildToken \/ ReadIsExpired
SpecToken == InitToken /\ [][NextToken]_vars

\* ------------------------------------------------------ program timetable

\* A time slot is [id, m_offset], m_offset in minutes since Monday 00:00; the
\* current time n is [weekday, time], time in minutes since midnight.
MinutesPerDay == 1440
MaxDay == 2
MaxSlots == 3
MaxZoneId == 1
TimeSlot(id, m_offset) == [id |-> id, m_offset |-> m_offset]
\* TimeSlot.time and TimeSlot.day.
TimeSlot_time(time_slot) == time_slot.m_offset % MinutesPerDay
TimeSlot_day(time_slot) == time_slot.m_offset \div MinutesPerDay

\* Variant: a slot has started only after its first minute.
is_already_started_late(time_slot, n) ==
    \/ TimeSlot_day(time_slot) < n.weekday
    \/ TimeSlot_day(time_slot) = n.weekday /\ TimeSlot_time(time_slot) < n.time
\* TimeSlot.is_already_started.
is_already_started(time_slot, n) ==
    \/ TimeSlot_day(time_slot) < n.weekday
    \/ TimeSlot_day(time_slot) = n.weekday /\ TimeSlot_time(time_slot) <= n.time

\* The first loop of get_active_zone from slot i on, zone_id being the id kept so far.
RECURSIVE active_zone_id(_, _, _, _)
active_zone_id(timetable, i, zone_id, n) ==
    IF i > Len(timetable) THEN zone_id
    ELSE IF ~is_already_started(timetable[i], n) THEN zone_id
    ELSE active_zone_id(timetable, i + 1, timetable[i].id, n)

\* The second loop: the first zone with that id, or None.
NoZone == -1
RECURSIVE find_zone(_, _, _)
find_zone(zones, j, zone_id) ==
    IF j > Len(zones) THEN NoZone
    ELSE IF zones[j] = zone_id THEN zones[j]
    ELSE find_zone(zones, j + 1, zone_id)

get_active_zone(timetable, zones, n) ==
    find_zone(zones, 1, active_zone_id(timetable, 1, 0, n))

\* Variant: the padding slot carries the id of the slot it is put in front of.
RECURSIVE timeslots_for_today_own_id(_, _, _, _, _)
timeslots_for_today_own_id(timetable, i, time_slots, previous_time_slot_zone_id, n) ==
    IF i > Len(timetable) THEN time_slots
    ELSE LET time_slot == timetable[i]
             padded == IF Len(time_slots) = 0 /\ TimeSlot_time(time_slot) # 0
                       THEN <<TimeSlot(time_slot.id,
                                       TimeSlot_day(time_slot) * MinutesPerDay)>>
                       ELSE <<>>
         IN  timeslots_for_today_own_id(
                 timetable, i + 1,
                 IF TimeSlot_day(time_slot) = n.weekday
                 THEN time_slots \o padded \o <<time_slot>>
                 ELSE time_slots,
                 time_slot.id, n)

\* The loop of get_timeslots_for_today from slot i on.
RECURSIVE timeslots_for_today(_, _, _, _, _)
timeslots_for_today(timetable, i, time_slots, previous_time_slot_zone_id, n) ==
    IF i > Len(timetable) THEN time_slots
    ELSE LET time_slot == timetable[i]
             padded == IF Len(time_slots) = 0 /\ TimeSlot_time(time_slot) # 0
                       THEN <<TimeSlot(previous_time_slot_zone_id,
                                       TimeSlot_day(time_slot) * MinutesPerDay)>>
                       ELSE <<>>
         IN  timeslots_for_today(
                 timetable, i + 1,
                 IF TimeSlot_day(time_slot) = n.weekday
                 THEN time_slots \o padded \o <<time_slot>>
                 ELSE time_slots,
                 time_slot.id, n)

get_timeslots_for_today(timetable, n) == timeslots_for_today(timetable, 1, <<>>, 0, n)

\* Programs: timetables of up to MaxSlots slots in increasing m_offset order, at
\* midnight or one hour past it on the days 0 .. MaxDay, and the zones defined.
ZoneIds == 0 .. MaxZoneId
Offsets == {d * MinutesPerDay + m : d \in 0 .. MaxDay, m \in {0, 60}}
Timetables ==
    {tt \in UNION {[1 .. k -> [id : ZoneIds, m_offset : Offsets]] : k \in 0 .. MaxSlots} :
        \A i \in DOMAIN tt : \A j \in DOMAIN tt : i < j => tt[i].m_offset < tt[j].m_offset}
ZoneLists == {<<0, 1>>, <<1>>}
Nows == [weekday : 0 .. MaxDay, time : {0, 59, 60, 61, MinutesPerDay - 1}]

InitProgram ==
    /\ pc = "program"
    /\ input \in [timetable : Timetables, zones : ZoneLists, n : Nows]
    /\ wire = <<>>
    /\ output = <<>>
    /\ Idle

\* program.get_active_zone() at time n.
GetActiveZone ==
    /\ pc = "program"
    /\ pc' = "zone"
    /\ output' = get_active_zone(input.timetable, input.zones, input.n)
    /\ UNCHANGED <<input, wire, IdleVars>>

\* program.get_timeslots_for_today() at time n.
GetTimeslotsForToday ==
    /\ pc = "program"
    /\ pc' = "timeslots"
    /\ output' = get_timeslots_for_today(input.timetable, input.n)
    /\ UNCHANGED <<input, wire, IdleVars>>

NextProgram == GetActiveZone \/ GetTimeslotsForToday
SpecProgram == InitProgram /\ [][NextProgram]_vars

\* ------------------------------------------------------------------ claims

Finished == pc = "done"
\* The retry budget is used up when the attempt that just failed is judged.
BudgetExhausted == attempt >= 10 \/ elapsed >= 300
RetryableTags ==
    {"NetworkTimeoutException", "NetworkException", "RequestServerException",
     "RequestException"}
TerminalTags ==
    {"RequestUnauthorizedException", "RequestBackoffException", "RequestClientException"}

\* C1: a call whose first resource response is 401 or 403, whose refresh gets a
\* non-error response and whose re-sent request succeeds returns success after
\* exactly two resource sends and one token-endpoint send (three sends), and the
\* observer, when configured, has been invoked exactly once.
C1_RefreshThenSuccess ==
    (/\ Finished /\ attempt = 1 /\ first \in {401, 403}
     /\ refresh = "replaced" /\ lastRaw = Response(200) /\ result = "success")
    => /\ resourceSends = 2
       /\ tokenSends = 1
       /\ resourceSends + tokenSends = 3
       /\ replacements = 1
       /\ observerCalls = (IF hasObserver THEN 1 ELSE 0)

C1_Witness ==
    /\ Finished /\ attempt = 1 /\ first = 403 /\ refresh = "replaced"
    /\ lastRaw = Response(200) /\ result = "success" /\ hasObserver
    /\ observerCalls = 1

\* C2: an endpoint answering 500 is re-attempted after a backoff sleep within the
\* schedule while the budget lasts, the first 200 ends the call at once, and a call
\* that succeeds has made no more than the maximum of 10 attempts.
C2_ServerErrorsRetriedUntilSuccess ==
    /\ attempt <= 10
    /\ (lastRaw = Response(500) /\ ~BudgetExhausted)
        => (pc = "sleep" /\ 0 <= delay /\ delay <= Min(2 ^ (attempt - 1), 30)
            /\ result = "none")
    /\ lastRaw = Response(200)
        => (Finished /\ result \in {"success", "NonOkResponseException"})
    /\ result = "success" => (attempt <= 10 /\ sleeps = attempt - 1)

C2_Witness ==
    /\ Finished /\ result = "success" /\ attempt = 10 /\ sleeps = 9
    /\ tokenSends = 0 /\ resourceSends = 10 /\ lastRaw = Response(200)

\* C3: an HTTP 400 from the resource endpoint ends the call at once with
\* RequestClientException; when it answers the first send of the call there has
\* been exactly one send, no retry, no backoff sleep and no token-endpoint send.
C3_ClientErrorFailsAtOnce ==
    /\ lastRaw = Response(400)
        => (Finished /\ result = "RequestClientException" /\ delay = 0
            /\ sleeps = attempt - 1)
    /\ (attempt = 1 /\ first = 400)
        => (/\ Finished /\ result = "RequestClientException"
            /\ resourceSends = 1 /\ tokenSends = 0 /\ sleeps = 0)

C3_Witness ==
    /\ Finished /\ attempt = 1 /\ first = 400 /\ lastRaw = Response(400)
    /\ result = "RequestClientException" /\ resourceSends = 1

\* C4: when the budget is exhausted by the attempt count, exactly 10 attempts
\* were made and the caller gets the classification of the last attempt, never a
\* synthesized exhaustion error.
C4_ExhaustionSurfacesLastFailure ==
    /\ attempt <= 10
    /\ (Finished /\ lastTag \in RetryableTags)
        => (/\ result = lastTag
            /\ result # "RetryError"
            /\ elapsed < 300 => (attempt = 10 /\ sleeps = 9))
    /\ (Finished /\ attempt = 10 /\ lastRaw = Response(500))
        => result = "RequestServerException"

C4_Witness ==
    /\ Finished /\ attempt = 10 /\ elapsed < 300 /\ lastRaw = Response(500)
    /\ result = "RequestServerException" /\ tokenSends = 0 /\ resourceSends = 10

\* C5 as stated: once a refresh has failed, the whole logical call, over every
\* attempt of the retry engine, sends at most one request to the token endpoint.
C5_OneRefreshPerCall == refreshFailed => tokenSends <= 1

\* C5 amended: each attempt of the retry engine (each run of the auth flow) sends
\* at most one request to the token endpoint, failed refresh or not, so a call
\* sends at most one per attempt made and never more than 10.
C5_OneRefreshPerAttempt ==
    /\ attemptTokenSends <= 1
    /\ tokenSends <= attempt
    /\ tokenSends <= 10
    /\ refresh \in {"error", "failed"} => (refreshFailed /\ attemptTokenSends = 1)

C5_Witness ==
    /\ Finished /\ refreshFailed /\ refresh = "failed" /\ tokenSends = 3
    /\ attempt = 3 /\ attemptTokenSends = 1

\* C6 as stated: during one logical call, counting every attempt of the retry
\* engine, the credential in the store is replaced zero times or once.
C6_OneReplacementPerCall == replacements <= 1

\* C6 amended: during one attempt of the retry engine (one run of the auth flow)
\* the credential is replaced zero times or once; over a logical call it is
\* replaced at most once per attempt made, and only by a refresh that was sent.
C6_OneReplacementPerAttempt ==
    /\ attemptReplacements <= 1
    /\ attemptReplacements <= attemptTokenSends
    /\ replacements <= attempt
    /\ replacements <= tokenSends
    /\ first \notin {401, 403} => attemptReplacements = 0

C6_Witness ==
    /\ Finished /\ replacements = 2 /\ attempt = 2 /\ attemptReplacements = 1
    /\ result = "success"

\* C7 as stated: when a 401/403 triggered a refresh and the refresh got an error
\* response or could not be sent, the failure the caller gets is
\* RequestUnauthorizedException.
C7_FailedRefreshSurfacesUnauthorized ==
    (Finished /\ refresh \in {"error", "failed"} /\ result # "success")
    => result = "RequestUnauthorizedException"

\* C7 amended: when the token endpoint answers the refresh with an error response,
\* the credential is left as it was, the request is sent once more and the
\* attempt ends with the classification of that second response: the caller gets
\* RequestUnauthorizedException when it is again 401 or 403. When the refresh
\* request cannot be sent, the attempt fails with the retryable classification of
\* that transport failure.
C7_FailedRefreshSurfacesResend ==
    /\ (refresh = "error" /\ pc \in {"sleep", "done"})
        => (/\ attemptResourceSends = 2
            /\ attemptReplacements = 0
            /\ lastRaw \in ResourceOutcomes
            /\ lastRaw.status \in {401, 403}
                => (Finished /\ result = "RequestUnauthorizedException"))
    /\ refresh = "failed"
        => (/\ attemptResourceSends = 1
            /\ lastRaw \in TransportFailures
            /\ lastTag \in {"NetworkTimeoutException", "NetworkException"}
            /\ Finished => (BudgetExhausted /\ result = lastTag))

C7_Witness ==
    /\ Finished /\ refresh = "error" /\ first = 401 /\ lastRaw = Response(401)
    /\ result = "RequestUnauthorizedException" /\ attemptResourceSends = 2
    /\ replacements = 0

\* C8: whether a failed attempt is re-attempted is decided by its classification
\* alone: the engine sleeps and re-attempts only after NetworkTimeoutException,
\* NetworkException, RequestServerException or RequestException, and does so
\* whenever the budget is not used up; the unauthorized, backoff and client
\* classifications, a non-ok body and rejected arguments are never re-attempted.
C8_RetryabilityByTag ==
    /\ pc = "sleep" => lastTag \in RetryableTags
    /\ (lastTag \in RetryableTags /\ ~BudgetExhausted) => (pc = "sleep" /\ result = "none")
    /\ lastTag \in TerminalTags => Finished
    /\ lastTag \in RetryableTags \cup TerminalTags \cup {"none", "AttributeError"}
    /\ result = "NonOkResponseException" => (Finished /\ sleeps = attempt - 1)
    /\ result = "UnsuportedArgumentsException"
        => (Finished /\ attempt = 0 /\ sleeps = 0 /\ resourceSends = 0)

C8_Witness ==
    /\ pc = "sleep" /\ lastTag = "RequestException" /\ lastRaw = Response(600)
    /\ attempt = 4 /\ sleeps = 4

\* C9: client_error_handler gives every exception it handles exactly one
\* classification: timeout, other network error, 401 or 403, 429, any other 4xx,
\* any 5xx, any other non-2xx status, in that precedence.
C9_ExactlyOneTagByPrecedence ==
    pc = "classified" =>
        LET http == lastRaw.exc = "HTTPStatusError"
            s == lastRaw.status
        IN /\ lastTag \in RetryableTags \cup TerminalTags
           /\ lastTag = "NetworkTimeoutException" <=> lastRaw.exc = "TimeoutException"
           /\ lastTag = "NetworkException" <=> lastRaw.exc = "NetworkError"
           /\ lastTag = "RequestUnauthorizedException" <=> (http /\ s \in {401, 403})
           /\ lastTag = "RequestBackoffException" <=> (http /\ s = 429)
           /\ lastTag = "RequestClientException"
                <=> (http /\ s \in (400 .. 499) \ {401, 403, 429})
           /\ lastTag = "RequestServerException" <=> (http /\ s \in 500 .. 599)
           /\ lastTag = "RequestException" <=> (http /\ s \notin 400 .. 599)

C9_Witness ==
    /\ pc = "classified" /\ lastRaw = HTTPStatusError(429)
    /\ lastTag = "RequestBackoffException"

\* C10: a failure classified unauthorized, backoff or client error at attempt k
\* ends the call there with that failure: no backoff sleep is started, no attempt
\* k+1 follows and nothing more is sent, whatever budget remains.
C10_TerminalFailureStopsAtOnce ==
    lastTag \in TerminalTags
    => (/\ Finished
        /\ result = lastTag
        /\ delay = 0
        /\ sleeps = attempt - 1
        /\ ~ENABLED CallStep)

C10_Witness ==
    /\ Finished /\ attempt = 3 /\ elapsed < 300 /\ sleeps = 2
    /\ lastRaw = Response(429) /\ result = "RequestBackoffException"

\* C11 as stated: no attempt starts once more than 300 s have passed since the
\* first attempt (elapsed, while the first request of an attempt is in flight, is
\* the time at which that attempt started).
C11_NoAttemptStartsPastDeadline ==
    (pc = "send1" /\ attempt > 1) => elapsed <= 300

\* C11 amended: the elapsed-time bound is judged when an attempt fails: a
\* retryable failure judged 300 s or more after the first attempt ends the call
\* with that failure, also when fewer than 10 attempts were made; a backoff sleep
\* is started only before the bound and lasts at most 30 s.
C11_DeadlineJudgedAtFailure ==
    /\ (lastTag \in RetryableTags /\ elapsed >= 300)
        => (Finished /\ result = lastTag /\ delay = 0 /\ sleeps = attempt - 1)
    /\ pc = "sleep" => (elapsed < 300 /\ delay <= 30)

C11_Witness ==
    /\ Finished /\ lastRaw = Response(500) /\ elapsed >= 300 /\ attempt = 3
    /\ sleeps = 2 /\ result = "RequestServerException"

\* C12: with several calls on one store, in every interleaving the store holds
\* the credential of the refresh response that was processed last (the initial
\* one while none was processed), and the observer, when configured, has been
\* invoked once for each processed successful refresh, in processing order, with
\* the credential of that refresh.
C12_LastProcessedRefreshWins ==
    /\ processed = <<>> => token \in {None, InitialToken}
    /\ processed # <<>> => token = Token(ExchangeBody(processed[Len(processed)]), 0)
    /\ hasObserver
        => /\ Len(observerLog) = Len(processed)
           /\ \A i \in 1 .. Len(processed) :
                observerLog[i].arg = Token(ExchangeBody(processed[i]), 0)

C12_Witness ==
    /\ processed = <<2, 1>> /\ hasObserver /\ Len(observerLog) = 2
    /\ token = Token(ExchangeBody(1), 0)
    /\ \A c \in Calls : flows[c].pc = "done"

\* C13 as stated: at no time are the refresh requests of two calls sharing the
\* store awaiting the token endpoint's answer together.
C13_OneRefreshInFlight ==
    Cardinality({c \in Calls : flows[c].pc = "refresh"}) <= 1

\* C14: in every state the stored credential is, as a whole, the caller-supplied
\* initial credential or the credential of one single token exchange: access
\* token, refresh token and expiry all belong to the same source.
C14_CredentialFromOneSource ==
    \/ token = None
    \/ token = InitialToken
    \/ \E k \in 1 .. exchanges :
        /\ token = Token(ExchangeBody(k), 0)
        /\ token.access_token = k /\ token.refresh_token = k
        /\ token.expires_at = JInt(k)

C14_Witness ==
    /\ Len(processed) = 2 /\ exchanges = 2
    /\ token.access_token = 2 /\ token.refresh_token = 2 /\ token.expires_at = JInt(2)

\* C15: the setter stores the new credential before it calls the observer (the
\* store returns the observer's argument while the observer runs), every
\* replacement is followed by exactly one invocation when an observer is
\* configured, and nothing is invoked without a replacement or without an observer.
C15_StoreThenObserveOnce ==
    /\ \A i \in 1 .. Len(observerLog) : observerLog[i].seen = observerLog[i].arg
    /\ Len(observerLog) = (IF hasObserver THEN Len(processed) ELSE 0)
    /\ observerLog # <<>> => observerLog[Len(observerLog)].arg = token

C15_Witness ==
    /\ hasObserver /\ Len(observerLog) = 1 /\ Len(processed) = 1
    /\ observerLog[1].seen = token /\ token # InitialToken

\* C16 as stated: when a 401 or 403 asks for a refresh and the store is empty,
\* the call ends with the invalid-argument failure
\* (UnsuportedArgumentsException), no request has gone to the token endpoint and
\* the failure is not followed by a backoff sleep.
C16_NoRefreshTokenIsInvalidArgument ==
    (Finished /\ token = None /\ first \in {401, 403})
    => (/\ result = "UnsuportedArgumentsException"
        /\ tokenSends = 0
        /\ sleeps = attempt - 1)

\* C17: whenever async_set_minor_mode raises UnsuportedArgumentsException the call
\* is over at once: no attempt was started, nothing was sent to the resource or
\* the token endpoint, the store holds the credential it was given, the observer
\* was not called, no backoff sleep was started and nothing further happens.
C17_InvalidArgumentSendsNothing ==
    result = "UnsuportedArgumentsException"
    => (/\ Finished
        /\ attempt = 0 /\ elapsed = 0
        /\ resourceSends = 0 /\ tokenSends = 0
        /\ replacements = 0 /\ observerCalls = 0
        /\ token \in {None, InitialToken}
        /\ sleeps = 0 /\ delay = 0
        /\ lastTag = "none"
        /\ ~ENABLED CallStep)

C17_Witness ==
    /\ result = "UnsuportedArgumentsException" /\ Finished /\ token = InitialToken
    /\ hasObserver /\ resourceSends = 0 /\ attempt = 0

\* C18 as stated: the request snapshot of every ApiException that reaches the
\* caller contains neither the access token nor the refresh token, whichever
\* request of the pipeline it is the snapshot of.
C18_NoCredentialInSnapshot ==
    (Finished /\ result \in RetryableTags \cup TerminalTags)
    => \A i \in DOMAIN ApiException_request :
            ApiException_request[i] \notin {"ACCESS", "REFRESH"}

\* The pairs of a body with the value of every access_token and password field
\* replaced by the marker.
Redacted(pairs) ==
    [i \in DOMAIN pairs |->
        IF pairs[i][1] \in {<<"access_token">>, <<"password">>}
        THEN <<pairs[i][1], <<FILTERED>> >>
        ELSE pairs[i]]

\* C19 as stated: for every body, the redacted body is the form encoding of the
\* same pairs in the same order, with the value of every access_token and
\* password field replaced by the marker and every other pair unchanged (a
\* trailing & aside).
C19_RedactionKeepsOtherPairs ==
    pc = "sanitized"
    => output \in {urlencode(Redacted(input)), urlencode(Redacted(input)) \o <<"&">>}

\* C20: for every token, deserializing its serialized form gives a token with
\* the same access token, refresh token and absolute expiry, and the serialized
\* form has exactly the three members access_token, refresh_token and expires_at.
C20_SerializeRoundTrip ==
    /\ pc \in {"serialized", "deserialized"}
        => /\ Len(wire) = 3
           /\ {wire[i][1] : i \in DOMAIN wire}
                = {"access_token", "refresh_token", "expires_at"}
    /\ pc = "deserialized"
        => /\ output = input
           /\ output.access_token = input.access_token
           /\ output.refresh_token = input.refresh_token
           /\ output.expires_at = input.expires_at

C20_Witness ==
    /\ pc = "deserialized" /\ input.expires_at = JInt(2)
    /\ input.access_token = PyStr(1) /\ input.refresh_token = JNull
    /\ output = input

\* C21: a 2xx response whose body status is not "ok" ends the logical call with
\* NonOkResponseException and nothing else does; the failure is terminal: the
\* call is finished on that response, no sleep follows it, and the attempt that
\* received it sent nothing after it (one resource send, or two with the single
\* refresh that preceded the 2xx response).
C21_NonOkBodyIsTerminal ==
    /\ (body # "none" /\ body # RESPONSE_STATUS_OK)
        => (/\ Finished /\ result = "NonOkResponseException"
            /\ lastRaw.exc = "none" /\ is_success(lastRaw.status)
            /\ sleeps = attempt - 1
            /\ attemptTokenSends = (IF first \in {401, 403} THEN 1 ELSE 0)
            /\ attemptResourceSends = attemptTokenSends + 1
            /\ ~ENABLED CallStep)
    /\ result = "NonOkResponseException" => (body # "none" /\ body # RESPONSE_STATUS_OK)
    /\ body = RESPONSE_STATUS_OK => result = "success"
C21_Witness ==
    /\ Finished /\ body = "failed" /\ result = "NonOkResponseException"
    /\ attempt = 1 /\ first = 200 /\ lastRaw = Response(200)
    /\ resourceSends = 1 /\ tokenSends = 0 /\ sleeps = 0

\* C22: a token fetch called with an empty username or an empty password ends
\* with UnsuportedArgumentsException and has sent nothing to the token endpoint.
C22_EmptyCredentialsSendNothing ==
    ((input.username = "" \/ input.password = "") /\ pc # "idle")
        => (Finished /\ result = "UnsuportedArgumentsException" /\ tokenSends = 0)

\* C23: within one attempt the steps are ordered: while the first send or the
\* refresh exchange is outstanding exactly one resource request has been sent;
\* the second resource request exists only after a 401/403 first response and a
\* completed refresh exchange, and when that exchange was answered without error
\* the new credential is already stored (and attached to the re-sent request) and
\* the observer, if any, already invoked; a refresh that raised sends no second request.
C23_ResendOnlyAfterRefreshCompleted ==
    /\ pc = "send1" => (attemptResourceSends = 1 /\ attemptTokenSends = 0
                        /\ refresh = "none")
    /\ pc = "refresh" => (attemptResourceSends = 1 /\ attemptTokenSends = 1
                          /\ refresh = "none" /\ first \in {401, 403})
    /\ refresh = "failed" => attemptResourceSends = 1
    /\ attemptResourceSends >= 2
        => (/\ attemptResourceSends = 2 /\ attemptTokenSends = 1
            /\ first \in {401, 403}
            /\ refresh \in {"replaced", "error"}
            /\ refresh = "replaced"
                => (/\ attemptReplacements = 1
                    /\ token # None
                    /\ token.access_token = replacements
                    /\ attached = token.access_token
                    /\ observerCalls = (IF hasObserver THEN replacements ELSE 0)))
C23_Witness ==
    /\ pc = "send2" /\ attempt = 1 /\ first = 401 /\ refresh = "replaced"
    /\ attemptResourceSends = 2 /\ attemptTokenSends = 1
    /\ token.access_token = 1 /\ attached = 1
    /\ hasObserver /\ observerCalls = 1

\* C24: one run of the auth flow sends at most two resource requests and at most
\* one refresh request; when the request re-sent after a refresh that replaced
\* the credential is answered 401 or 403 again, the flow has ended with that
\* response: no refresh or resource request is outstanding, and the run made
\* exactly two resource sends, one token-endpoint send and one replacement.
C24_SecondAuthFailureEndsFlow ==
    /\ attemptResourceSends <= 2
    /\ attemptTokenSends <= 1
    /\ (/\ refresh = "replaced" /\ attemptResourceSends >= 2
        /\ lastRaw.exc = "none" /\ is_auth_failure(lastRaw.status))
        => (/\ pc \notin {"send1", "refresh", "send2"}
            /\ attemptResourceSends = 2
            /\ attemptTokenSends = 1
            /\ attemptReplacements = 1)
C24_Witness ==
    /\ Finished /\ attempt = 1 /\ first = 401 /\ refresh = "replaced"
    /\ lastRaw = Response(401) /\ resourceSends = 2 /\ tokenSends = 1
    /\ replacements = 1

\* C25: the resource request re-sent after a refresh that replaced the credential
\* carries the access token of the refresh response, which is the stored one and
\* not the token of the first send; and the refresh request of an attempt carried
\* grant_type=refresh_token, the client id, the client secret and the refresh
\* token of the credential that was stored when the refresh request was built.
C25_ResendCarriesNewToken ==
    /\ (attemptResourceSends = 2 /\ refresh = "replaced")
        => (/\ attached = RefreshBody(replacements).access_token
            /\ attached = token.access_token
            /\ attached # replacements - 1)
    /\ attemptTokenSends = 1
        => (/\ grant.grant_type = "refresh_token"
            /\ grant.client_id = "ID"
            /\ grant.client_secret = "SECRET"
            /\ grant.refresh_token = replacements - attemptReplacements)
C25_Witness ==
    /\ pc = "send2" /\ attempt = 2 /\ refresh = "replaced" /\ replacements = 2
    /\ attached = 2 /\ token.access_token = 2
    /\ grant = refresh_token_request_of(Token(RefreshBody(1), 0))

\* C26: once the first resource response of an attempt has a status other than
\* 401 and 403, the auth flow has ended with that response: it is the response
\* handed on for classification, the attempt made one resource send and no
\* token-endpoint send, it did not replace the credential, and on the first
\* attempt the store still holds the credential the call started with and the
\* observer has not been invoked.
C26_NoAuthFailureSingleSend ==
    (first # 0 /\ first \notin {401, 403})
        => (/\ pc \in {"sleep", "done"}
            /\ lastRaw = Response(first)
            /\ attemptResourceSends = 1
            /\ attemptTokenSends = 0
            /\ attemptReplacements = 0
            /\ refresh = "none"
            /\ attempt = 1 => (/\ resourceSends = 1 /\ tokenSends = 0
                               /\ token \in {None, InitialToken}
                               /\ replacements = 0 /\ observerCalls = 0
                               /\ grant = NoGrant))
C26_Witness ==
    /\ Finished /\ attempt = 1 /\ first = 429 /\ lastRaw = Response(429)
    /\ resourceSends = 1 /\ tokenSends = 0 /\ token = InitialToken
    /\ hasObserver /\ observerCalls = 0

\* C27: the step that processes a refresh response with an error status (400 to
\* 599) leaves the stored credential as it was, access token, refresh token and
\* expiry, and does not invoke the observer; and the stored credential changes
\* only in a step that processes a refresh response with a non-error status.
C27_ErrorRefreshLeavesStore ==
    [][/\ \A c \in Calls :
            (/\ flows[c].pc = "refreshed" /\ flows'[c].pc = "send2"
             /\ 400 <= flows[c].status /\ flows[c].status <= 599)
                => (token' = token /\ observerLog' = observerLog)
       /\ (token' # token \/ observerLog' # observerLog)
            => \E c \in Calls :
                /\ flows[c].pc = "refreshed" /\ flows'[c].pc = "send2"
                /\ ~(400 <= flows[c].status /\ flows[c].status <= 599)]_vars
C27_Witness ==
    /\ hasObserver /\ token = InitialToken /\ observerLog = <<>>
    /\ \E c \in Calls : flows[c].pc = "send2" /\ flows[c].status \in {400, 500}
    /\ \A c \in Calls : flows[c].pc \in {"send2", "done"}

\* C28: the stored credential changes only by a refresh that replaces it with the
\* newly issued one, so no step that ends an attempt in failure puts an earlier
\* credential back; the first request of every attempt, and the first request of
\* a later call on the same store, carries the access token of the store as it
\* is then, which after any replacement is the token of the latest refresh.
C28_ReplacementStaysInEffect ==
    [][/\ replacements' >= replacements
       /\ token' # token
            => (/\ refresh' = "replaced"
                /\ replacements' = replacements + 1
                /\ token' = Token(RefreshBody(replacements'), 0))
       /\ pc' = "send1"
            => (/\ attached' = attached_access_token(token')
                /\ replacements' >= 1
                    => attached' = RefreshBody(replacements').access_token)
       /\ later' # later
            => (/\ later' = attached_access_token(token')
                /\ replacements' >= 1
                    => later' = RefreshBody(replacements').access_token)]_vars
C28_Witness ==
    /\ Finished /\ attempt = 3 /\ replacements = 1 /\ tokenSends = 1
    /\ attemptTokenSends = 0 /\ lastRaw = Raised("NetworkError")
    /\ result = "NetworkException"
    /\ token.access_token = 1 /\ attached = 1 /\ later = 1

\* C29: the first attempt runs at time 0 with no sleep before it; outside a sleep
\* the number of sleeps is the number of attempts less one, so every later
\* attempt was preceded by exactly one sleep; a sleep is under way only after a
\* retryable failure judged with fewer than 10 attempts made and less than 300 s
\* elapsed; a transport timeout is classified NetworkTimeoutException and sleeps
\* under those conditions; and a call that has ended, by success, by a failure
\* that is not retryable or by an exhausted budget, has no sleep after its last attempt.
C29_OneSleepBeforeEachLaterAttempt ==
    /\ (pc = "fetch" /\ attempt = 1) => (elapsed = 0 /\ sleeps = 0)
    /\ pc = "idle" => sleeps = 0
    /\ pc \in {"fetch", "done"} => sleeps = attempt - 1
    /\ pc = "sleep"
        => (/\ sleeps = attempt
            /\ lastTag \in RetryableTags
            /\ ~BudgetExhausted
            /\ result = "none")
    /\ lastRaw = Raised("TimeoutException")
        => (/\ lastTag = "NetworkTimeoutException"
            /\ pc = (IF BudgetExhausted THEN "done" ELSE "sleep"))
    /\ Finished
        => (/\ delay = 0
            /\ \/ result = "success"
               \/ result \notin RetryableTags
               \/ BudgetExhausted)
C29_Witness ==
    /\ pc = "sleep" /\ attempt = 3 /\ sleeps = 3 /\ tokenSends = 3
    /\ lastRaw = Raised("TimeoutException") /\ lastTag = "NetworkTimeoutException"
    /\ jitter = "high" /\ delay = 4 /\ elapsed = 3

\* C30: the delay slept after the n-th failed attempt is at least 0, at most 30
\* and at most 1 * 2^(n-1) seconds; no delay is pending outside a sleep.
C30_DelayWithinBackoffInterval ==
    /\ 0 <= delay
    /\ delay <= 30
    /\ pc = "sleep" => (attempt >= 1 /\ delay <= 1 * 2 ^ (attempt - 1))
    /\ pc # "sleep" => delay = 0
C30_Witness ==
    /\ pc = "sleep" /\ attempt = 6 /\ jitter = "high" /\ delay = 30
    /\ lastTag = "RequestServerException"

\* C31: once the token endpoint has answered the refresh request that followed a
\* 401/403 first response, with an error status or not, the attempt has sent the
\* resource request a second time and never a third; after an error answer the
\* store is untouched and the re-sent request carries the access token the first
\* send carried; and the attempt does not end before the re-sent request was answered.
C31_ResendWhateverTheRefreshResponse ==
    /\ refresh \in {"replaced", "error"}
        => (/\ first \in {401, 403}
            /\ attemptResourceSends = 2
            /\ attemptTokenSends = 1
            /\ pc \in {"send2", "sleep", "done"})
    /\ refresh = "error"
        => (/\ attemptReplacements = 0
            /\ token # None
            /\ token = (IF replacements = 0 THEN InitialToken
                        ELSE Token(RefreshBody(replacements), 0))
            /\ attached = token.access_token)
    /\ (pc = "send2" /\ refresh = "error") => (lastRaw = NoRaw /\ result = "none")
C31_Witness ==
    /\ Finished /\ attempt = 1 /\ first = 401 /\ refresh = "error"
    /\ resourceSends = 2 /\ tokenSends = 1 /\ replacements = 0
    /\ token = InitialToken /\ attached = 0
    /\ lastRaw = Response(200) /\ result = "success"

\* C32: every logical call ends, with success or with a failure, and all along it
\* has made at most 10 attempts, at most two resource sends and one
\* token-endpoint send per attempt, hence at most 20 resource sends and 10
\* token-endpoint sends in all.
C32_CallTerminatesWithinBounds ==
    /\ [](/\ attempt <= MaxAttemptNumber
          /\ attemptResourceSends <= 2
          /\ attemptTokenSends <= 1
          /\ resourceSends <= 2 * attempt
          /\ tokenSends <= attempt
          /\ resourceSends <= 2 * MaxAttemptNumber
          /\ tokenSends <= MaxAttemptNumber
          /\ Finished => result # "none")
    /\ <>Finished
C32_Witness ==
    /\ Finished /\ attempt = 10 /\ resourceSends = 20 /\ tokenSends = 10
    /\ result = "RequestServerException"

\* C33: async_set_minor_mode raises UnsuportedArgumentsException for every
\* argument combination except these four: not activating with neither end time
\* nor temperature; activating MANUAL with an end time later than now and a
\* temperature; activating HWB with an end time later than now and no
\* temperature; activating AWAY with no temperature and no end time or one later
\* than now.  When it accepts, the request has setpoint_endtime and setpoint_temp
\* exactly when they were supplied, with the supplied values.
C33_MinorModeArguments ==
    pc = "checked"
    => LET m == input.setpoint_mode
           e == input.setpoint_endtime
           t == input.setpoint_temp
           later_than_now == e # JNull /\ e[2] > input.now
           accepted ==
               \/ ~input.activate /\ e = JNull /\ t = JNull
               \/ input.activate /\ m = "manual" /\ later_than_now /\ t # JNull
               \/ input.activate /\ m = "hwb" /\ later_than_now /\ t = JNull
               \/ input.activate /\ m = "away" /\ t = JNull
                  /\ (e = JNull \/ later_than_now)
       IN  /\ output.raised <=> ~accepted
           /\ ~output.raised
               => (/\ "setpoint_endtime" \in output.data.keys <=> e # JNull
                   /\ "setpoint_temp" \in output.data.keys <=> t # JNull
                   /\ output.data.setpoint_endtime = e
                   /\ output.data.setpoint_temp = t)
C33_Witness ==
    /\ pc = "checked" /\ ~output.raised
    /\ input.activate /\ input.setpoint_mode = "manual"
    /\ input.setpoint_endtime = JInt(input.now + 1) /\ input.setpoint_temp = JInt(0)
    /\ output.data.keys = {"setpoint_endtime", "setpoint_temp"}

\* C34: is_expired is true for a token built from a response with no integer
\* expires_at (absent, null or a string) and no integer expires_in, and for every
\* token without an expiry; for a token with an integer expires_at it is true
\* exactly when expires_at is earlier than the time of reading, so it is false
\* when expires_at is that time or later.
C34_IsExpired ==
    pc = "read"
    => LET x == get(input.params, "expires_at")
           y == get(input.params, "expires_in")
       IN  /\ (~isinstance_int(x) /\ ~isinstance_int(y)) => output = TRUE
           /\ wire.expires_at = JNull => output = TRUE
           /\ isinstance_int(x) => (output <=> x[2] < input.read_at)
C34_Witness ==
    /\ pc = "read" /\ output = FALSE
    /\ "expires_in" \notin DOMAIN input.params
    /\ input.params.expires_at = JInt(3) /\ input.read_at = 2

\* C35: the Token built from a response holds an integer expiry or none: the
\* response's expires_at when that is an integer, whether or not expires_in is
\* there too; else the time of building plus expires_in when that is an integer;
\* else none.  Its access_token and refresh_token are the response's (none when
\* the response has none).
C35_TokenNormalizesExpiry ==
    pc \in {"built", "read"}
    => LET has(k) == k \in DOMAIN input.params
           int_at == has("expires_at") /\ input.params.expires_at[1] = "int"
           int_in == has("expires_in") /\ input.params.expires_in[1] = "int"
       IN  /\ wire.expires_at = JNull \/ wire.expires_at[1] = "int"
           /\ int_at => wire.expires_at = input.params.expires_at
           /\ (~int_at /\ int_in)
                => wire.expires_at = JInt(input.built_at + input.params.expires_in[2])
           /\ (~int_at /\ ~int_in) => wire.expires_at = JNull
           /\ wire.access_token = input.params.access_token
           /\ wire.refresh_token = input.params.refresh_token
C35_Witness ==
    /\ pc = "built" /\ input.built_at = 2
    /\ DOMAIN input.params = {"access_token", "refresh_token", "expires_at", "expires_in"}
    /\ input.params.expires_at = JInt(1) /\ input.params.expires_in = JInt(3)
    /\ wire = [access_token |-> PyStr(1), refresh_token |-> JNull, expires_at |-> JInt(1)]

\* A slot has started when its offset in the week is at or before the current
\* minute of the week; the started slots of the timetable read at the current time.
StartedSlots ==
    {i \in DOMAIN input.timetable :
        input.timetable[i].m_offset <= input.n.weekday * 1440 + input.n.time}
LatestStarted == CHOOSE i \in StartedSlots : \A j \in StartedSlots : j <= i
ZonesDefined == {input.zones[j] : j \in DOMAIN input.zones}

\* C36 as stated: for every current time and every ordered timetable the result
\* is the zone whose id is the id of the latest slot that has started.
C36_ActiveZoneIsLatestStarted ==
    pc = "zone"
    => (/\ StartedSlots # {}
        /\ output = input.timetable[LatestStarted].id)

\* C36 amended: the result is the zone whose id is the id of the latest slot
\* that has started, a slot starting at the current minute included, or the id 0
\* when no slot has started yet; when the program defines no zone with that id
\* the result is None.
C36_ActiveZoneOrFallback ==
    pc = "zone"
    => LET zone_id == IF StartedSlots = {} THEN 0
                      ELSE input.timetable[LatestStarted].id
       IN  output = (IF zone_id \in ZonesDefined THEN zone_id ELSE NoZone)
C36_Witness ==
    /\ pc = "zone"
    /\ input.timetable = <<TimeSlot(1, 0), TimeSlot(0, 1500), TimeSlot(1, 2880)>>
    /\ input.n = [weekday |-> 1, time |-> 60]
    /\ input.zones = <<0, 1>>
    /\ output = 0

\* The slots of today in the timetable read at the current time, and the
\* subsequence of the timetable at those indexes.
TodaySlots ==
    {i \in DOMAIN input.timetable :
        input.timetable[i].m_offset \div 1440 = input.n.weekday}
FirstToday == CHOOSE i \in TodaySlots : \A j \in TodaySlots : i <= j
RECURSIVE SlotsFrom(_)
SlotsFrom(i) ==
    IF i > Len(input.timetable) THEN <<>>
    ELSE (IF i \in TodaySlots THEN <<input.timetable[i]>> ELSE <<>>) \o SlotsFrom(i + 1)
StartsAtMidnight(time_slot) == time_slot.m_offset % 1440 = 0

\* C37 as stated: the result is today's slots in timetable order, preceded, exactly
\* when the first of them does not start at 00:00, by one padding slot at today's
\* midnight that carries the id of the slot preceding it in the timetable.
C37_PaddingCarriesPrecedingSlot ==
    pc = "timeslots"
    => IF TodaySlots = {} \/ StartsAtMidnight(input.timetable[FirstToday])
       THEN output = SlotsFrom(1)
       ELSE /\ FirstToday > 1
            /\ output = <<TimeSlot(input.timetable[FirstToday - 1].id,
                                   input.n.weekday * 1440)>> \o SlotsFrom(1)

\* C37 amended: as stated, and when today's first slot is the first slot of the
\* timetable, so that no slot precedes it, the padding slot carries the id 0.
C37_PaddingCarriesPrecedingSlotOrZero ==
    pc = "timeslots"
    => IF TodaySlots = {} \/ StartsAtMidnight(input.timetable[FirstToday])
       THEN output = SlotsFrom(1)
       ELSE output =
                <<TimeSlot(IF FirstToday > 1 THEN input.timetable[FirstToday - 1].id
                           ELSE 0,
                           input.n.weekday * 1440)>> \o SlotsFrom(1)
C37_Witness ==
    /\ pc = "timeslots"
    /\ input.timetable = <<TimeSlot(0, 0), TimeSlot(1, 60), TimeSlot(0, 1500)>>
    /\ input.n.weekday = 1
    /\ output = <<TimeSlot(1, 1440), TimeSlot(0, 1500)>>

====
